---- MODULE Spec2Model ----
(***************************************************************************)
(* Model of the Parallel Search MCP adapter: the parallel_search tool      *)
(* handler and the async function parallelSearch it awaits.                *)
(*                                                                         *)
(* JavaScript values are tagged records (field k names the type), text is  *)
(* a TLA+ string built by concatenation, and every invocation runs as the  *)
(* event loop runs it: the synchronous part up to the first await is one   *)
(* step, and each later step is the continuation of one settled promise.   *)
(***************************************************************************)
EXTENDS Integers, Sequences, FiniteSets, TLC

(***************************************************************************)
(* JavaScript values                                                       *)
(***************************************************************************)
Undefined == [k |-> "undefined"]
JNull == [k |-> "null"]
Str(s) == [k |-> "string", v |-> s]
Num(n) == [k |-> "number", v |-> n]
Arr(s) == [k |-> "array", v |-> s]
Obj(f) == [k |-> "object", v |-> f]
EmptyObject == [key \in {} |-> Undefined]

\* ToBoolean, as `!x`, `x || y` and `if (x)` apply it.
Truthy(x) ==
    CASE x.k = "undefined" -> FALSE
      [] x.k = "null" -> FALSE
      [] x.k = "string" -> x.v # ""
      [] x.k = "number" -> x.v # 0
      [] OTHER -> TRUE

\* x || y
OrElse(x, y) == IF Truthy(x) THEN x ELSE y

\* Completion of an evaluation: a value, or a thrown error.
Return(val) == [threw |-> FALSE, value |-> val]
Throw(err) == [threw |-> TRUE, error |-> err]

\* Thrown values. An Error carries name and message; str is String(error).
ErrorObj(name, message) ==
    [isError |-> TRUE, name |-> name, message |-> message,
     str |-> name \o ": " \o message]
NonError(text) == [isError |-> FALSE, name |-> "", message |-> "", str |-> text]
TypeError(message) == ErrorObj("TypeError", message)
SyntaxError(message) == ErrorObj("SyntaxError", message)

\* v[key]: reading a property of null or undefined throws, a primitive or
\* an array has no such own property, an object yields it or undefined.
GetProp(val, key) ==
    CASE val.k \in {"null", "undefined"} ->
            Throw(TypeError("Cannot read properties of " \o val.k
                            \o " (reading '" \o key \o "')"))
      [] val.k = "object" ->
            Return(IF key \in DOMAIN val.v THEN val.v[key] ELSE Undefined)
      [] OTHER -> Return(Undefined)

\* v.length
LengthOf(val) ==
    CASE val.k = "array" -> Num(Len(val.v))
      [] val.k = "string" -> Num(Len(val.v))
      [] OTHER -> Undefined

\* `${v}` inside a template literal.
ToStr(val) ==
    CASE val.k = "string" -> val.v
      [] val.k = "number" -> ToString(val.v)
      [] val.k = "undefined" -> "undefined"
      [] val.k = "null" -> "null"
      [] OTHER -> "[object Object]"

RECURSIVE JoinStr(_, _)
\* Array.prototype.join over strings.
JoinStr(parts, sep) ==
    IF Len(parts) = 0 THEN ""
    ELSE IF Len(parts) = 1 THEN parts[1]
    ELSE parts[1] \o sep \o JoinStr(Tail(parts), sep)

RECURSIVE MapStr(_)
\* The string each element of an array contributes to join().
MapStr(vals) ==
    IF Len(vals) = 0 THEN <<>>
    ELSE <<IF vals[1].k \in {"null", "undefined"} THEN "" ELSE ToStr(vals[1])>>
         \o MapStr(Tail(vals))

(***************************************************************************)
(* parallelSearch: validation, credential, payload                         *)
(***************************************************************************)
PARALLEL_API_URL == "https://api.parallel.ai/v1beta/search"

MissingInputText ==
    "Error: At least one of 'objective' or 'search_queries' is required."

MissingKeyText ==
    "Error: Parallel API key is required. Either pass it as 'api_key' "
    \o "parameter, set PARALLEL_API_KEY environment variable, or configure "
    \o "it in your MCP client headers as 'x-api-key'. "
    \o "Get your API key from https://parallel.ai"

TimeoutText == "Error: Request to Parallel Search API timed out"

\* processor = 'base' in the destructuring of args.
ProcessorOrDefault(a) ==
    IF a.processor.k = "undefined" THEN Str("base") ELSE a.processor

\* objective === null && search_queries === null: an omitted input passes.
MissingInputs_NullOnly(a) == a.objective = JNull /\ a.search_queries = JNull

\* !objective && !search_queries
MissingInputs(a) == ~Truthy(a.objective) /\ ~Truthy(a.search_queries)

\* process.env.PARALLEL_API_KEY || api_key: the environment's key first.
ResolveApiKey_EnvFirst(a, e) == OrElse(e, a.api_key)

\* api_key || process.env.PARALLEL_API_KEY
ResolveApiKey(a, e) == OrElse(a.api_key, e)

\* if (cond) requestBody[key] = val
Field(cond, key, val) == IF cond THEN key :> val ELSE EmptyObject

BuildRequestBody(a) ==
    ("processor" :> ProcessorOrDefault(a))
    @@ Field(Truthy(a.objective), "objective", a.objective)
    @@ Field(Truthy(a.search_queries), "search_queries", a.search_queries)
    @@ Field(a.max_results # Undefined, "max_results", a.max_results)
    @@ Field(a.max_chars_per_result # Undefined, "max_chars_per_result",
             a.max_chars_per_result)
    @@ Field(Truthy(a.source_policy), "source_policy", a.source_policy)

\* JSON.stringify of an object keeps the keys whose value is not undefined.
JSONStringify(o) == [key \in {x \in DOMAIN o : o[x].k # "undefined"} |-> o[key]]

\* The arguments of fetch(): no signal, so no deadline is set on the call.
FetchInit(apiKey, requestBody) ==
    [url |-> PARALLEL_API_URL,
     method |-> "POST",
     headers |-> [content_type |-> "application/json", x_api_key |-> apiKey],
     body |-> JSONStringify(requestBody),
     signal |-> Undefined]

(***************************************************************************)
(* parallelSearch: the response                                            *)
(***************************************************************************)
\* response.status < 500: a client error taken for a success.
ResponseOk_Below500(status) == status < 500

\* response.ok
ResponseOk(status) == status >= 200 /\ status <= 299

UpstreamErrorText(status, errorText) ==
    "Error: Parallel Search API returned " \o ToString(status) \o ": " \o errorText

Entry(title, url, excerpts) ==
    Obj(("title" :> title) @@ ("url" :> url) @@ ("excerpts" :> excerpts))

\* response.json(): the text of each body of ResponseBodies, parsed.
JsonParse(text) ==
    CASE text = "null" -> Return(JNull)
      [] text = "{}" -> Return(Obj(EmptyObject))
      [] text = "{\"search_id\":\"s1\",\"results\":[]}" ->
            Return(Obj(("search_id" :> Str("s1")) @@ ("results" :> Arr(<<>>))))
      [] text = "{\"search_id\":\"s2\",\"results\":[{\"title\":\"T\",\"url\":\"U\",\"excerpts\":[\"a\",\"b\"]}]}" ->
            Return(Obj(("search_id" :> Str("s2"))
                @@ ("results" :> Arr(<<Entry(Str("T"), Str("U"),
                                             Arr(<<Str("a"), Str("b")>>))>>))))
      [] text = "{\"results\":[{\"excerpts\":[]},{\"title\":\"T2\",\"url\":\"U2\"}]}" ->
            Return(Obj("results" :> Arr(<<Obj("excerpts" :> Arr(<<>>)),
                                          Obj(("title" :> Str("T2"))
                                              @@ ("url" :> Str("U2")))>>)))
      [] text = "{\"search_id\":\"\",\"results\":[{\"title\":\"\",\"url\":\"U\",\"excerpts\":[\"x\"]}]}" ->
            Return(Obj(("search_id" :> Str(""))
                @@ ("results" :> Arr(<<Entry(Str(""), Str("U"), Arr(<<Str("x")>>))>>))))
      [] text = "{\"results\":5}" -> Return(Obj("results" :> Num(5)))
      [] text = "{\"search_id\":\"s3\",\"results\":[null]}" ->
            Return(Obj(("search_id" :> Str("s3")) @@ ("results" :> Arr(<<JNull>>))))
      [] text = "{\"results\":[{\"title\":\"T\",\"excerpts\":\"abc\"}]}" ->
            Return(Obj("results" :> Arr(<<Obj(("title" :> Str("T"))
                                              @@ ("excerpts" :> Str("abc")))>>)))
      [] OTHER -> Throw(SyntaxError("Unexpected token in JSON"))

\* The callback of data.results.map().
FormatEntry(entry) ==
    LET t == GetProp(entry, "title")
    IN  IF t.threw THEN t
        ELSE LET title == OrElse(t.value, Str("No title"))
                 url == OrElse(GetProp(entry, "url").value, Str("No URL"))
                 excerpts == OrElse(GetProp(entry, "excerpts").value, Arr(<<>>))
             IN  IF excerpts.k # "array"
                 THEN Throw(TypeError("(result.excerpts || []).join is not a function"))
                 ELSE Return("**" \o ToStr(title) \o "**\nURL: " \o ToStr(url)
                             \o "\n" \o JoinStr(MapStr(excerpts.v), " "))

RECURSIVE FormatEntries(_)
\* data.results.map(...): the blocks in order, or the first error thrown.
FormatEntries(entries) ==
    IF Len(entries) = 0 THEN Return(<<>>)
    ELSE LET head == FormatEntry(entries[1])
         IN  IF head.threw THEN head
             ELSE LET rest == FormatEntries(Tail(entries))
                  IN  IF rest.threw THEN rest
                      ELSE Return(<<head.value>> \o rest.value)

SearchIdText(data) == ToStr(OrElse(GetProp(data, "search_id").value, Str("unknown")))

NoResultsText(data) ==
    "Search completed (ID: " \o SearchIdText(data) \o ") but no results found."

\* The blocks joined without the rule.
ResultsSeparator_NoRule == "\n\n"

ResultsSeparator == "\n\n---\n\n"

\* The body of the try block after response.json() has resolved to data.
FormatData(data) ==
    LET r == GetProp(data, "results")
    IN  IF r.threw THEN r
        ELSE IF ~Truthy(r.value) \/ LengthOf(r.value) = Num(0)
        THEN Return(NoResultsText(data))
        ELSE IF r.value.k # "array"
        THEN Throw(TypeError("data.results.map is not a function"))
        ELSE LET formattedResults == FormatEntries(r.value.v)
             IN  IF formattedResults.threw THEN formattedResults
                 ELSE Return("Search ID: " \o SearchIdText(data) \o "\n\n"
                             \o JoinStr(formattedResults.value, ResultsSeparator))

\* The catch block.
CatchBlock(error) ==
    IF error.isError /\ error.name = "TimeoutError"
    THEN TimeoutText
    ELSE "Error calling Parallel Search API: "
         \o (IF error.isError THEN error.message ELSE error.str)

\* No catch block: what the try block throws leaves the function.
TryCatch_Rethrow(c) == c

\* try { ... } catch (error) { ... }: every completion becomes a return.
TryCatch(c) == IF c.threw THEN Return(CatchBlock(c.error)) ELSE c

(***************************************************************************)
(* Inputs                                                                  *)
(***************************************************************************)
\* Invocations that may be in flight at once.
NumInvocations == 2
Invocations == 1 .. NumInvocations

\* process.env.PARALLEL_API_KEY: unset, set to the empty string, or set.
EnvKeys == {Undefined, Str(""), Str("env-key")}

\* Arguments the tool's schema admits; Undefined is an omitted parameter.
ArgSets ==
    [objective : {Undefined, Str(""), Str("quantum computing")},
     search_queries : {Undefined, Arr(<<>>), Arr(<<Str("qubits")>>)},
     processor : {Undefined, Str("pro")},
     max_results : {Undefined, Num(3)},
     max_chars_per_result : {Undefined, Num(100)},
     source_policy : {Undefined, Obj(EmptyObject),
                      Obj("include_domains" :> Arr(<<Str("arxiv.org")>>))},
     api_key : {Undefined, Str(""), Str("call-key")}]

\* The inbound MCP request: its x-api-key header and the tool arguments.
HeaderKeys == {Undefined, Str("header-key")}
Requests == [x_api_key : HeaderKeys, args : ArgSets]

\* Arguments and requests of the runs with several invocations in flight.
FewArgSets ==
    {a \in ArgSets :
        /\ a.objective # Str("")
        /\ a.search_queries = Undefined
        /\ a.processor = Undefined
        /\ a.max_results = Undefined
        /\ a.max_chars_per_result = Undefined
        /\ a.source_policy = Undefined
        /\ a.api_key # Str("")}
FewRequests == [x_api_key : {Undefined}, args : FewArgSets]

Statuses == {200, 204, 404, 500}

ResponseBodies ==
    {"", "server error", "null", "{}",
     "{\"search_id\":\"s1\",\"results\":[]}",
     "{\"search_id\":\"s2\",\"results\":[{\"title\":\"T\",\"url\":\"U\",\"excerpts\":[\"a\",\"b\"]}]}",
     "{\"results\":[{\"excerpts\":[]},{\"title\":\"T2\",\"url\":\"U2\"}]}",
     "{\"search_id\":\"\",\"results\":[{\"title\":\"\",\"url\":\"U\",\"excerpts\":[\"x\"]}]}",
     "{\"results\":5}",
     "{\"search_id\":\"s3\",\"results\":[null]}",
     "{\"results\":[{\"title\":\"T\",\"excerpts\":\"abc\"}]}"}

Responses == [status : Statuses, body : ResponseBodies]
FewResponses ==
    [status : {200, 500},
     body : {"server error", "{\"search_id\":\"s1\",\"results\":[]}"}]

\* What fetch() may reject with.
FetchErrors ==
    {ErrorObj("TimeoutError", "The operation timed out."),
     TypeError("fetch failed"),
     NonError("ECONNRESET")}

(***************************************************************************)
(* State                                                                   *)
(***************************************************************************)
VARIABLES
    env,        \* process.env.PARALLEL_API_KEY
    pc,         \* where each invocation stands
    request,    \* the inbound request of each invocation
    outbound,   \* the fetch() calls each invocation has issued
    settled,    \* how the promise of fetch() settled
    result,     \* what parallelSearch resolved to
    content     \* what the tool handler returned

vars == <<env, pc, request, outbound, settled, result, content>>

Init ==
    /\ env \in EnvKeys
    /\ pc = [i \in Invocations |-> "idle"]
    /\ request = [i \in Invocations |-> Undefined]
    /\ outbound = [i \in Invocations |-> <<>>]
    /\ settled = [i \in Invocations |-> Undefined]
    /\ result = [i \in Invocations |-> Undefined]
    /\ content = [i \in Invocations |-> Undefined]

\* The promise of parallelSearch settles: resolved with a text, or rejected.
Settle(i, c) ==
    IF c.threw
    THEN /\ pc' = [pc EXCEPT ![i] = "faulted"]
         /\ result' = [result EXCEPT ![i] = Undefined]
    ELSE /\ pc' = [pc EXCEPT ![i] = "resolved"]
         /\ result' = [result EXCEPT ![i] = Str(c.value)]

\* `response` held in one module-level variable that every invocation reads.
ResponseOf_Shared(i) ==
    settled[CHOOSE j \in Invocations : pc[j] \in {"awaitText", "awaitJson"}]

\* The response the continuation after `await fetch(...)` works on.
ResponseOf(i) == settled[i]

\* The handler is called with the arguments of the request (never its
\* headers) and parallelSearch runs up to `await fetch(...)`.
Invoke(i, req) ==
    /\ pc[i] = "idle"
    /\ request' = [request EXCEPT ![i] = req]
    /\ LET a == req.args
           apiKeyToUse == ResolveApiKey(a, env)
       IN  IF MissingInputs(a)
           THEN /\ Settle(i, Return(MissingInputText))
                /\ outbound' = [outbound EXCEPT ![i] = <<>>]
           ELSE IF ~Truthy(apiKeyToUse)
           THEN /\ Settle(i, Return(MissingKeyText))
                /\ outbound' = [outbound EXCEPT ![i] = <<>>]
           ELSE /\ outbound' = [outbound EXCEPT
                        ![i] = <<FetchInit(apiKeyToUse, BuildRequestBody(a))>>]
                /\ pc' = [pc EXCEPT ![i] = "awaitFetch"]
                /\ result' = [result EXCEPT ![i] = Undefined]
    /\ UNCHANGED <<env, settled, content>>

\* fetch() resolves with the response's status line; the body follows.
FetchResolve(i, resp) ==
    /\ pc[i] = "awaitFetch"
    /\ settled' = [settled EXCEPT ![i] =
            [type |-> "fulfilled", status |-> resp.status, body |-> resp.body]]
    /\ pc' = [pc EXCEPT ![i] =
            IF ResponseOk(resp.status) THEN "awaitJson" ELSE "awaitText"]
    /\ UNCHANGED <<env, request, outbound, result, content>>

\* fetch() rejects: the catch block runs.
FetchReject(i, err) ==
    /\ pc[i] = "awaitFetch"
    /\ settled' = [settled EXCEPT ![i] = [type |-> "rejected", error |-> err]]
    /\ Settle(i, TryCatch(Throw(err)))
    /\ UNCHANGED <<env, request, outbound, content>>

\* !response.ok: `await response.text()` resolves.
TextResolve(i) ==
    /\ pc[i] = "awaitText"
    /\ Settle(i, TryCatch(Return(
            UpstreamErrorText(ResponseOf(i).status, ResponseOf(i).body))))
    /\ UNCHANGED <<env, request, outbound, settled, content>>

\* response.ok: `await response.json()` settles and the results are formatted.
JsonResolve(i) ==
    /\ pc[i] = "awaitJson"
    /\ LET data == JsonParse(ResponseOf(i).body)
       IN  Settle(i, TryCatch(IF data.threw THEN data ELSE FormatData(data.value)))
    /\ UNCHANGED <<env, request, outbound, settled, content>>

\* { content: [{ type: 'text', text: result }] }
ToolResult(text) == [k |-> "object", content |-> <<[type |-> "text", text |-> text]>>]

\* The tool handler returns the text as its content.
HandlerReturn(i) ==
    /\ pc[i] = "resolved"
    /\ content' = [content EXCEPT ![i] = ToolResult(result[i].v)]
    /\ pc' = [pc EXCEPT ![i] = "returned"]
    /\ UNCHANGED <<env, request, outbound, settled, result>>

\* The content has gone back to the client: the invocation is over and
\* nothing of it is kept; a later call starts afresh.
Complete(i) ==
    /\ pc[i] = "returned"
    /\ pc' = [pc EXCEPT ![i] = "idle"]
    /\ request' = [request EXCEPT ![i] = Undefined]
    /\ outbound' = [outbound EXCEPT ![i] = <<>>]
    /\ settled' = [settled EXCEPT ![i] = Undefined]
    /\ result' = [result EXCEPT ![i] = Undefined]
    /\ content' = [content EXCEPT ![i] = Undefined]
    /\ UNCHANGED env

\* One invocation after another.
Next ==
    \/ \E req \in Requests : Invoke(1, req)
    \/ \E resp \in Responses : FetchResolve(1, resp)
    \/ \E err \in FetchErrors : FetchReject(1, err)
    \/ TextResolve(1)
    \/ JsonResolve(1)
    \/ HandlerReturn(1)
    \/ Complete(1)

Spec == Init /\ [][Next]_vars

\* Several invocations in flight, their steps interleaved.
ConcNext ==
    \E i \in Invocations :
        \/ \E req \in FewRequests : Invoke(i, req)
        \/ \E resp \in FewResponses : FetchResolve(i, resp)
        \/ \E err \in FetchErrors : FetchReject(i, err)
        \/ TextResolve(i)
        \/ JsonResolve(i)
        \/ HandlerReturn(i)
        \/ Complete(i)

ConcSpec == Init /\ [][ConcNext]_vars

\* The same steps, with what the event loop guarantees: a continuation whose
\* promise has settled runs. Nothing makes the upstream answer, and the call
\* to fetch() arms no timer, so FetchResolve and FetchReject are not fair.
FairSpec ==
    /\ ConcSpec
    /\ \A i \in Invocations :
        /\ WF_vars(TextResolve(i))
        /\ WF_vars(JsonResolve(i))
        /\ WF_vars(HandlerReturn(i))

(***************************************************************************)
(* Properties                                                              *)
(***************************************************************************)
Started(i) == pc[i] # "idle"
Done(i) == pc[i] \in {"resolved", "returned"}
ArgsOf(i) == request[i].args

\* A parameter the caller supplied, whatever its value.
Supplied(val) == val # Undefined
\* A credential: a string that is not empty.
IsKey(val) == val.k = "string" /\ val.v # ""

C2_ExactlyOneCall ==
    \A i \in Invocations : pc[i] = "returned" =>
        LET a == ArgsOf(i)
        IN  ((IsKey(a.api_key) \/ IsKey(env))
                /\ (Supplied(a.objective) \/ Supplied(a.search_queries)))
            => /\ Len(outbound[i]) = 1
               /\ outbound[i][1].method = "POST"
               /\ ~Supplied(a.processor)
                    => outbound[i][1].body["processor"] = Str("base")

\* C3: the x-api-key header sent upstream is the per-call api_key when one
\* is given, and the environment's key only when none is.
C3_CredentialPrecedence ==
    \A i \in Invocations : (Started(i) /\ outbound[i] # <<>>) =>
        LET a == ArgsOf(i)
            sent == outbound[i][1].headers.x_api_key
        IN  /\ IsKey(sent)
            /\ IsKey(a.api_key) => sent = a.api_key
            /\ ~IsKey(a.api_key) => sent = env

C3_Witness ==
    /\ pc[1] = "returned"
    /\ ArgsOf(1).api_key = Str("call-key")
    /\ env = Str("env-key")
    /\ Len(outbound[1]) = 1
    /\ outbound[1][1].headers.x_api_key = Str("call-key")

\* C4: a key that arrives as the inbound x-api-key header, with no api_key
\* parameter and no environment key, is the credential of the outbound call.
C4_HeaderKeyAccepted ==
    \A i \in Invocations : pc[i] = "returned" =>
        LET a == ArgsOf(i)
        IN  (/\ IsKey(request[i].x_api_key)
             /\ ~Supplied(a.api_key)
             /\ ~Supplied(env)
             /\ IsKey(a.objective))
            => /\ Len(outbound[i]) = 1
               /\ outbound[i][1].headers.x_api_key = request[i].x_api_key
               /\ result[i] # Str(MissingKeyText)

\* C5: the payload always has processor, and has each of objective,
\* search_queries, max_results, max_chars_per_result and source_policy
\* exactly when the caller supplied it, an empty value included.
OptionalFields ==
    {"objective", "search_queries", "max_results", "max_chars_per_result",
     "source_policy"}

C5_PayloadMirrorsSupplied ==
    \A i \in Invocations : (Started(i) /\ outbound[i] # <<>>) =>
        LET a == ArgsOf(i)
            payload == outbound[i][1].body
        IN  /\ "processor" \in DOMAIN payload
            /\ \A f \in OptionalFields :
                /\ f \in DOMAIN payload <=> Supplied(a[f])
                /\ f \in DOMAIN payload => payload[f] = a[f]

\* C6: no invocation ends in a fault: whatever the upstream does, the
\* promise of parallelSearch resolves to one text, and the handler returns
\* it as a single text content block.
C6_NeverFaults ==
    \A i \in Invocations :
        /\ pc[i] # "faulted"
        /\ Done(i) => result[i].k = "string"
        /\ pc[i] = "returned" =>
            /\ content[i] # Undefined
            /\ Len(content[i].content) = 1
            /\ content[i].content[1] = [type |-> "text", text |-> result[i].v]

C6_Witness ==
    /\ pc[1] = "returned"
    /\ settled[1] = [type |-> "fulfilled", status |-> 200, body |-> "null"]
    /\ result[1] = Str("Error calling Parallel Search API: "
                       \o "Cannot read properties of null (reading 'results')")
    /\ Len(content[1].content) = 1

\* C7: every invocation that has reached the outbound call returns in the
\* end, an unresponsive upstream included.
C7_EventuallyReturns ==
    \A i \in Invocations : (pc[i] = "awaitFetch") ~> (pc[i] = "returned")

\* C8: a response with a status outside 200..299 gives the error text with
\* the status and the raw body, whatever the body is.
C8_UpstreamErrorText ==
    \A i \in Invocations :
        (/\ Done(i)
         /\ settled[i] # Undefined
         /\ settled[i].type = "fulfilled"
         /\ ~(settled[i].status \in 200 .. 299))
        => result[i] = Str("Error: Parallel Search API returned "
                           \o ToString(settled[i].status) \o ": "
                           \o settled[i].body)

C8_Witness ==
    /\ pc[1] = "returned"
    /\ settled[1] = [type |-> "fulfilled", status |-> 500, body |-> "server error"]
    /\ result[1] = Str("Error: Parallel Search API returned 500: server error")

\* C9: for a 2xx response whose body has the documented shape the text is
\* fixed by the parsed body alone: the no-results message with the search id
\* or 'unknown' when results is absent or empty, and otherwise the header
\* 'Search ID: <id or unknown>', a blank line, and one block per result in
\* upstream order, '**<title or No title>**', 'URL: <url or No URL>', the
\* excerpts joined by single spaces, the blocks separated by a blank line,
\* '---' and a blank line.
C9_Opt(fields, key) == IF key \in DOMAIN fields THEN fields[key] ELSE Undefined

C9_OptString(val) == val.k \in {"undefined", "string"}

C9_EntryShaped(e) ==
    /\ e.k = "object"
    /\ C9_OptString(C9_Opt(e.v, "title"))
    /\ C9_OptString(C9_Opt(e.v, "url"))
    /\ LET ex == C9_Opt(e.v, "excerpts")
       IN  \/ ex = Undefined
           \/ /\ ex.k = "array"
              /\ \A n \in 1 .. Len(ex.v) : ex.v[n].k = "string"

C9_Shaped(data) ==
    /\ data.k = "object"
    /\ C9_OptString(C9_Opt(data.v, "search_id"))
    /\ LET rs == C9_Opt(data.v, "results")
       IN  \/ rs = Undefined
           \/ /\ rs.k = "array"
              /\ \A n \in 1 .. Len(rs.v) : C9_EntryShaped(rs.v[n])

C9_TextOr(val, placeholder) ==
    IF val.k = "string" /\ val.v # "" THEN val.v ELSE placeholder

RECURSIVE C9_Spaced(_, _)
C9_Spaced(ex, n) ==
    IF n = 0 THEN ""
    ELSE IF n = 1 THEN ex[1].v
    ELSE C9_Spaced(ex, n - 1) \o " " \o ex[n].v

C9_Block(e) ==
    LET ex == C9_Opt(e.v, "excerpts")
    IN  "**" \o C9_TextOr(C9_Opt(e.v, "title"), "No title") \o "**" \o "\n"
        \o "URL: " \o C9_TextOr(C9_Opt(e.v, "url"), "No URL") \o "\n"
        \o (IF ex = Undefined THEN "" ELSE C9_Spaced(ex.v, Len(ex.v)))

RECURSIVE C9_Blocks(_, _)
C9_Blocks(entries, n) ==
    IF n = 1 THEN C9_Block(entries[1])
    ELSE C9_Blocks(entries, n - 1) \o "\n" \o "\n" \o "---" \o "\n" \o "\n"
         \o C9_Block(entries[n])

C9_Expected(data) ==
    LET id == C9_TextOr(C9_Opt(data.v, "search_id"), "unknown")
        rs == C9_Opt(data.v, "results")
    IN  IF rs = Undefined \/ Len(rs.v) = 0
        THEN "Search completed (ID: " \o id \o ") but no results found."
        ELSE "Search ID: " \o id \o "\n" \o "\n" \o C9_Blocks(rs.v, Len(rs.v))

C9_Is2xx(i) ==
    /\ Done(i)
    /\ settled[i] # Undefined
    /\ settled[i].type = "fulfilled"
    /\ settled[i].status \in 200 .. 299

C9_FormattedText ==
    \A i \in Invocations : C9_Is2xx(i) =>
        LET parsed == JsonParse(settled[i].body)
        IN  /\ (~parsed.threw /\ C9_Shaped(parsed.value))
                => result[i] = Str(C9_Expected(parsed.value))
            /\ settled[i].body = "{\"search_id\":\"s1\",\"results\":[]}"
                => result[i] = Str("Search completed (ID: s1) but no results found.")
            /\ settled[i].body = "{}"
                => result[i] = Str("Search completed (ID: unknown) but no results found.")
            /\ settled[i].body = "{\"search_id\":\"s2\",\"results\":[{\"title\":\"T\",\"url\":\"U\",\"excerpts\":[\"a\",\"b\"]}]}"
                => result[i] = Str("Search ID: s2\n\n**T**\nURL: U\na b")

C9_Witness ==
    /\ pc[1] = "returned"
    /\ settled[1] = [type |-> "fulfilled", status |-> 200,
                     body |-> "{\"results\":[{\"excerpts\":[]},{\"title\":\"T2\",\"url\":\"U2\"}]}"]
    /\ result[1] = Str("Search ID: unknown\n\n**No title**\nURL: No URL\n"
                       \o "\n\n---\n\n**T2**\nURL: U2\n")

\* C10: invocations are independent under any interleaving: the result of
\* each is fixed by its own arguments, the environment's key and its own
\* upstream response; a step of one invocation changes nothing of another;
\* the environment's key is never written.
C10_Outcome(a, e, s) ==
    IF MissingInputs(a) THEN MissingInputText
    ELSE IF ~Truthy(ResolveApiKey(a, e)) THEN MissingKeyText
    ELSE IF s.type = "rejected" THEN CatchBlock(s.error)
    ELSE IF ~ResponseOk(s.status) THEN UpstreamErrorText(s.status, s.body)
    ELSE LET data == JsonParse(s.body)
         IN  TryCatch(IF data.threw THEN data ELSE FormatData(data.value)).value

C10_Slot(i) == <<pc[i], request[i], outbound[i], settled[i], result[i], content[i]>>

C10_OwnInputsOnly ==
    \A i \in Invocations : Done(i) =>
        result[i] = Str(C10_Outcome(ArgsOf(i), env, settled[i]))

C10_Independent ==
    /\ []C10_OwnInputsOnly
    /\ [][env' = env]_vars
    /\ [][\A i, j \in Invocations :
            (i # j /\ C10_Slot(i)' # C10_Slot(i)) => C10_Slot(j)' = C10_Slot(j)]_vars

C10_Witness ==
    /\ pc[1] = "returned"
    /\ pc[2] = "returned"
    /\ settled[1] # Undefined
    /\ settled[1].type = "rejected"
    /\ result[1] = Str(TimeoutText)
    /\ result[2] = Str("Search completed (ID: s1) but no results found.")

====
